---- MODULE Spec2Model ----
(***************************************************************************)
(* US visa appointment monitor: the Playwright pipeline (visa_monitor.py,  *)
(* started continuously by its own __main__ or once by check_once.py) and  *)
(* the Selenium pipeline (snoop_bot.py, continuous only).                  *)
(*                                                                         *)
(* One check is acquire -> login -> navigate -> probe -> decide -> cleanup.*)
(* The remote page, the browser engine and the mail relay are the          *)
(* environment: every call into them draws its outcome from a small set.   *)
(***************************************************************************)
EXTENDS Integers, Sequences, FiniteSets, TLC

\* ---------------------------------------------------------------- bounds
MaxChecks == 2
MaxInterrupts == 1
MaxLiveChecks == 1      \* checks per run in the progress specification

\* ------------------------------------------------------------- constants
\* check_once.py imports visa_monitor only; snoop_bot.py has no single-shot.
Configs == {<<"playwright", "monitor">>, <<"playwright", "once">>,
            <<"selenium", "monitor">>}

CredNames == {"VISA_EMAIL", "VISA_PASSWORD", "NOTIFICATION_EMAIL",
              "SMTP_EMAIL", "SMTP_APP_PASSWORD"}

\* URLs are sequences of path segments.
LoginURL == <<"ais.usvisa-info.com", "en-ca", "niv", "users", "sign_in">>
GroupsURL == <<"ais.usvisa-info.com", "en-ca", "niv", "groups">>
URLs == {LoginURL, GroupsURL}

\* Python's `needle in haystack` on the segments of a URL / words of a text.
Contains(seq, x) == \E i \in 1..Len(seq) : seq[i] = x

AvailableSubject == <<"US", "Visa", "Appointment", "Available", "in", "Calgary!">>
AvailableBody == [text |-> <<"APPOINTMENT", "AVAILABLE!">>, link |-> LoginURL]
StartedSubject == <<"Visa", "Monitor", "Started">>
StartedBody == [text |-> <<"The", "appointment", "monitoring", "bot", "has", "started.">>,
                link |-> <<>>]

\* ------------------------------------------------------------- variables
VARIABLES
  backend,      \* which pipeline runs
  entry,        \* "monitor" (run_monitor) or "once" (check_once.py)
  creds,        \* credential name -> TRUE when os.getenv returned a value
  pc,           \* position of the single thread
  driver,       \* self.driver / self.browser: 0 is None, else a browser id
  pw,           \* check_appointments' local `playwright` is not None
  cur,          \* browser id acquired by the running check, 0 if none
  nextId,       \* browsers constructed so far
  live,         \* browser ids whose process is running
  releaseCalls, \* browser id -> number of quit()/close() calls on it
  checks,       \* check_appointments invocations so far
  loginIn, navIn, probeIn,      \* what the page did in the running check
  loginRes, navRes, probeRes,   \* what each step returned ("none" = not run)
  mails,        \* send_notification calls, in order
  trace,        \* <<step, result>> of each step the running check invoked
  exc,          \* exception in flight out of check_appointments
  ret,          \* return value of check_appointments ("none" until set)
  sleeps,       \* time.sleep(check_interval) calls since the last check began
  interrupts,   \* KeyboardInterrupts delivered so far
  exitStatus    \* -1 while running, else the process exit status

vars == <<backend, entry, creds, pc, driver, pw, cur, nextId, live,
          releaseCalls, checks, loginIn, navIn, probeIn, loginRes, navRes,
          probeRes, mails, trace, exc, ret, sleeps, interrupts, exitStatus>>

\* ------------------------------------------------------ step inputs
NoLoginIn == [pre |-> "na", checkbox |-> "na", tick |-> "na", submit |-> "na",
              url |-> <<>>, intr |-> "none"]
NoNavIn == [pre |-> "na", click |-> "na", domClick |-> "na", intr |-> "none"]
NoProbeIn == [dropdown |-> "na", busy |-> "na", submitCtl |-> "na", intr |-> "none"]

\* pre: page load and the e-mail/password field lookups;
\* checkbox: state of #policy_confirmed ("error": lookup raised something
\*           other than not-found, eg a stale element);
\* tick: outcome of clicking the checkbox / its label;
\* submit: outcome of clicking the commit button; url: location after settle.
\* intr: "outer" a KeyboardInterrupt lands in the step outside any nested
\*       try; "bare" it lands inside the step's nested try block.
LoginInputs ==
  { i \in [pre : {"ok", "fail"},
           checkbox : {"absent", "unchecked", "checked", "error", "na"},
           tick : {"ok", "fail", "na"},
           submit : {"ok", "fail", "na"},
           url : URLs \cup {<<>>},
           intr : {"none", "outer", "bare"}] :
      /\ (i.pre = "fail") =>
            (i.checkbox = "na" /\ i.submit = "na" /\ i.intr = "none")
      /\ (i.pre = "ok") => (i.checkbox # "na" /\ i.submit # "na")
      /\ (i.tick # "na") <=> (i.checkbox = "unchecked")
      /\ (i.url # <<>>) <=> (i.submit = "ok" /\ i.intr = "none")
      /\ (i.intr # "none") => (i.submit = "ok" /\ i.checkbox = "checked") }

\* pre: Continue link, accordion toggle, button lookup and scroll-into-view;
\* click: ordinary click on the reschedule button; domClick: the
\* arguments[0].click() script.
NavInputs ==
  { i \in [pre : {"ok", "fail"},
           click : {"ok", "fail", "na"},
           domClick : {"ok", "fail", "na"},
           intr : {"none", "outer", "bare"}] :
      /\ (i.pre = "fail") => (i.click = "na" /\ i.intr = "none")
      /\ (i.pre = "ok") => (i.click # "na")
      /\ (i.domClick # "na") <=> (i.click = "fail" \/ i.intr = "bare")
      /\ (i.intr # "none") => (i.click = "ok") }

\* dropdown: facility <select> lookup and selection;
\* busy: the 'System is busy' text node ("error": the lookup raised
\*       something other than not-found);
\* submitCtl: #appointments_submit: "missing" no such element, "noattr" no
\*       disabled attribute, "empty" disabled="" (what <input disabled> and
\*       el.disabled = true give), "disabled" disabled="disabled".
\* The page has a submit control whether or not the probe gets to read it.
ProbeInputs ==
  { i \in [dropdown : {"ok", "fail"},
           busy : {"absent", "hidden", "visible", "error", "na"},
           submitCtl : {"missing", "noattr", "empty", "disabled", "na"},
           intr : {"none", "outer", "bare"}] :
      /\ (i.dropdown = "fail") =>
            (i.busy = "na" /\ i.submitCtl = "na" /\ i.intr = "none")
      /\ (i.dropdown = "ok") => (i.busy # "na")
      /\ (i.submitCtl = "na") <=> (i.dropdown = "fail")
      /\ (i.intr # "none") => (i.busy \in {"absent", "visible"}) }

\* ------------------------------------------------------ step functions
\* Each returns what the method returns: ret is "True", "False", or "raise"
\* when a KeyboardInterrupt leaves the method (`except Exception` does not
\* catch a BaseException; a bare `except:` does).

\* visa_monitor.py login
LoginPlaywright(in, c) ==
  IF in.pre = "fail" \/ ~c["VISA_EMAIL"] \/ ~c["VISA_PASSWORD"]
  THEN [ret |-> "False", ticked |-> FALSE, submitted |-> FALSE]
  ELSE LET ticked == (in.checkbox = "unchecked" /\ in.tick = "ok") IN
    IF in.submit = "fail"
    THEN [ret |-> "False", ticked |-> ticked, submitted |-> FALSE]
    ELSE IF in.intr = "outer"
    THEN [ret |-> "raise", ticked |-> ticked, submitted |-> TRUE]
    ELSE IF in.intr = "bare"       \* reading page.url raised: `except: pass`
    THEN [ret |-> "True", ticked |-> ticked, submitted |-> TRUE]
    ELSE IF Contains(in.url, "sign_in")
    THEN [ret |-> "False", ticked |-> ticked, submitted |-> TRUE]
    ELSE [ret |-> "True", ticked |-> ticked, submitted |-> TRUE]

\* variant of LoginSelenium: the checkbox is clicked without asking
\* is_selected() first
LoginSelenium_AlwaysClick(in, c) ==
  IF in.pre = "fail" \/ ~c["VISA_EMAIL"] \/ ~c["VISA_PASSWORD"]
  THEN [ret |-> "False", ticked |-> FALSE, submitted |-> FALSE]
  ELSE IF in.checkbox = "error" \/ (in.checkbox = "unchecked" /\ in.tick = "fail")
  THEN [ret |-> "False", ticked |-> FALSE, submitted |-> FALSE]
  ELSE LET ticked == (in.checkbox \in {"unchecked", "checked"}) IN
    IF in.submit = "fail"
    THEN [ret |-> "False", ticked |-> ticked, submitted |-> FALSE]
    ELSE IF in.intr # "none"
    THEN [ret |-> "raise", ticked |-> ticked, submitted |-> TRUE]
    ELSE [ret |-> "True", ticked |-> ticked, submitted |-> TRUE]

\* snoop_bot.py login
LoginSelenium(in, c) ==
  IF in.pre = "fail" \/ ~c["VISA_EMAIL"] \/ ~c["VISA_PASSWORD"]
  THEN [ret |-> "False", ticked |-> FALSE, submitted |-> FALSE]
  ELSE IF in.checkbox = "error" \/ (in.checkbox = "unchecked" /\ in.tick = "fail")
  THEN [ret |-> "False", ticked |-> FALSE, submitted |-> FALSE]
  ELSE LET ticked == (in.checkbox = "unchecked") IN
    IF in.submit = "fail"
    THEN [ret |-> "False", ticked |-> ticked, submitted |-> FALSE]
    ELSE IF in.intr # "none"
    THEN [ret |-> "raise", ticked |-> ticked, submitted |-> TRUE]
    ELSE [ret |-> "True", ticked |-> ticked, submitted |-> TRUE]

login(b, in, c) ==
  IF b = "playwright" THEN LoginPlaywright(in, c) ELSE LoginSelenium(in, c)

\* visa_monitor.py navigate_to_reschedule: one click, no fallback
NavigatePlaywright(in) ==
  IF in.pre = "fail" THEN [ret |-> "False", fallback |-> FALSE]
  ELSE IF in.intr # "none" THEN [ret |-> "raise", fallback |-> FALSE]
  ELSE IF in.click = "fail" THEN [ret |-> "False", fallback |-> FALSE]
  ELSE [ret |-> "True", fallback |-> FALSE]

\* snoop_bot.py navigate_to_reschedule: click, bare except, script click
NavigateSelenium(in) ==
  IF in.pre = "fail" THEN [ret |-> "False", fallback |-> FALSE]
  ELSE IF in.intr = "outer" THEN [ret |-> "raise", fallback |-> FALSE]
  ELSE IF in.click = "fail" \/ in.intr = "bare"
  THEN [ret |-> IF in.domClick = "ok" THEN "True" ELSE "False", fallback |-> TRUE]
  ELSE [ret |-> "True", fallback |-> FALSE]

navigate_to_reschedule(b, in) ==
  IF b = "playwright" THEN NavigatePlaywright(in) ELSE NavigateSelenium(in)

\* get_attribute("disabled"): Playwright hands back the raw attribute value,
\* Selenium maps a boolean attribute to "true"; both give None when absent.
GetAttribute(b, ctl) ==
  IF ctl = "noattr" THEN "None"
  ELSE IF b = "selenium" THEN "true"
  ELSE IF ctl = "empty" THEN "" ELSE "disabled"

\* Python truthiness of an Optional[str]
Truthy(v) == v \notin {"None", ""}

\* lines 175-186 / 198-209: the submit control decides
SubmitVerdict(b, in) ==
  IF in.submitCtl = "missing"
  THEN [ret |-> "False", verdict |-> "Indeterminate", readSubmit |-> TRUE]
  ELSE IF Truthy(GetAttribute(b, in.submitCtl))
  THEN [ret |-> "False", verdict |-> "Unavailable", readSubmit |-> TRUE]
  ELSE [ret |-> "True", verdict |-> "Available", readSubmit |-> TRUE]

\* variant of ProbePlaywright: a visible busy message does not end the probe
ProbePlaywright_BusyIgnored(in) ==
  IF in.dropdown = "fail"
  THEN [ret |-> "False", verdict |-> "Indeterminate", readSubmit |-> FALSE]
  ELSE IF in.intr = "outer"
  THEN [ret |-> "raise", verdict |-> "Indeterminate", readSubmit |-> FALSE]
  ELSE SubmitVerdict("playwright", in)

\* visa_monitor.py check_reschedule_availability
ProbePlaywright(in) ==
  IF in.dropdown = "fail"
  THEN [ret |-> "False", verdict |-> "Indeterminate", readSubmit |-> FALSE]
  ELSE IF in.intr = "outer"
  THEN [ret |-> "raise", verdict |-> "Indeterminate", readSubmit |-> FALSE]
  ELSE IF in.intr = "bare" \/ in.busy = "error"   \* is_visible() raised:
  THEN SubmitVerdict("playwright", in)            \* bare `except:`, go on
  ELSE IF in.busy = "visible"
  THEN [ret |-> "False", verdict |-> "Unavailable", readSubmit |-> FALSE]
  ELSE SubmitVerdict("playwright", in)

\* snoop_bot.py check_reschedule_availability
ProbeSelenium(in) ==
  IF in.dropdown = "fail"
  THEN [ret |-> "False", verdict |-> "Indeterminate", readSubmit |-> FALSE]
  ELSE IF in.intr # "none"
  THEN [ret |-> "raise", verdict |-> "Indeterminate", readSubmit |-> FALSE]
  ELSE IF in.busy = "error"
  THEN [ret |-> "False", verdict |-> "Indeterminate", readSubmit |-> FALSE]
  ELSE IF in.busy = "visible"
  THEN [ret |-> "False", verdict |-> "Unavailable", readSubmit |-> FALSE]
  ELSE SubmitVerdict("selenium", in)

check_reschedule_availability(b, in) ==
  IF b = "playwright" THEN ProbePlaywright(in) ELSE ProbeSelenium(in)

NoLoginRes == [ret |-> "none", ticked |-> FALSE, submitted |-> FALSE]
NoNavRes == [ret |-> "none", fallback |-> FALSE]
NoProbeRes == [ret |-> "none", verdict |-> "none", readSubmit |-> FALSE]

\* ------------------------------------------------------------ helpers
SmtpCreds == {"NOTIFICATION_EMAIL", "SMTP_EMAIL", "SMTP_APP_PASSWORD"}

\* send_notification: builds the message, talks to the relay, and swallows
\* any Exception.  The record is the call; delivered tells how it ended.
send_notification(subject, body, relayOk) ==
  Append(mails, [subject |-> subject, body |-> body, check |-> checks,
                 delivered |-> (relayOk /\ \A n \in SmtpCreds : creds[n])])

\* variant of NotifyExc: send_notification without its try/except
NotifyExc_Propagates(relayOk) ==
  IF relayOk /\ \A n \in SmtpCreds : creds[n] THEN "none" ELSE "Exception"

\* what leaves send_notification: its `except Exception` logs the delivery
\* failure and the method returns None either way
NotifyExc(relayOk) == "none"

\* check_appointments line 215 / 228: the branch that sends the e-mail
ShouldNotify(is_available) == is_available = "False"

\* variant of AfterCheck: run_monitor without its `except Exception` clause
AfterCheck_NoCatch(e) ==
  IF entry = "once"
  THEN [pc |-> "exited",
        status |-> IF e = "none" THEN 0 ELSE IF e = "Exception" THEN 1 ELSE 130]
  ELSE IF e = "none" THEN [pc |-> "sleep", status |-> -1]
  ELSE IF e = "Exception" THEN [pc |-> "exited", status |-> 1]
  ELSE [pc |-> "exited", status |-> 0]

\* run_monitor / check_once: where control goes once check_appointments is
\* left with exception e ("none" = it returned)
AfterCheck(e) ==
  IF entry = "once"
  THEN [pc |-> "exited",
        status |-> IF e = "none" THEN 0 ELSE IF e = "Exception" THEN 1 ELSE 130]
  ELSE IF e = "none" THEN [pc |-> "sleep", status |-> -1]
  ELSE IF e = "Exception" THEN [pc |-> "handler_sleep", status |-> -1]
  ELSE [pc |-> "exited", status |-> 0]       \* except KeyboardInterrupt: break

\* -------------------------------------------------------------- Init
Init ==
  /\ \E c \in Configs : backend = c[1] /\ entry = c[2]
  /\ creds \in [CredNames -> BOOLEAN]
  /\ pc = "main"
  /\ driver = 0
  /\ pw = FALSE
  /\ cur = 0
  /\ nextId = 0
  /\ live = {}
  /\ releaseCalls = [b \in 1..MaxChecks |-> 0]
  /\ checks = 0
  /\ loginIn = NoLoginIn /\ navIn = NoNavIn /\ probeIn = NoProbeIn
  /\ loginRes = NoLoginRes /\ navRes = NoNavRes /\ probeRes = NoProbeRes
  /\ mails = <<>>
  /\ trace = <<>>
  /\ exc = "none"
  /\ ret = "none"
  /\ sleeps = 0
  /\ interrupts = 0
  /\ exitStatus = -1

\* ------------------------------------------------------------ actions
\* __main__: os.getenv five times, VisaAppointmentMonitor(...), then
\* run_monitor (continuous) or check_appointments (check_once.py).
Main ==
  /\ UNCHANGED trace
  /\ pc = "main"
  /\ pc' = IF entry = "monitor" THEN "run_monitor" ELSE "iter"
  /\ driver' = 0
  /\ UNCHANGED <<backend, entry, creds, pw, cur, nextId, live, releaseCalls,
                 checks, loginIn, navIn, probeIn, loginRes, navRes, probeRes,
                 mails, exc, ret, sleeps, interrupts, exitStatus>>

\* run_monitor up to `while True`
RunMonitorStart ==
  /\ UNCHANGED trace
  /\ pc = "run_monitor"
  /\ \E relayOk \in BOOLEAN :
       /\ mails' = send_notification(StartedSubject, StartedBody, relayOk)
       \* the call is outside run_monitor's try: an exception ends the process
       /\ pc' = IF NotifyExc(relayOk) = "none" THEN "iter" ELSE "exited"
       /\ exitStatus' = IF NotifyExc(relayOk) = "none" THEN exitStatus ELSE 1
  /\ UNCHANGED <<backend, entry, creds, driver, pw, cur, nextId, live,
                 releaseCalls, checks, loginIn, navIn, probeIn, loginRes,
                 navRes, probeRes, exc, ret, sleeps, interrupts>>

\* check_appointments up to the first step: sync_playwright().start(),
\* chromium.launch, new_context/new_page  --  or setup_driver().
\*   "no_engine"   sync_playwright().start() raised (Playwright only)
\*   "no_browser"  chromium.launch / webdriver.Chrome raised
\*   "setup_fails" the handle is assigned, a later setup call raised
AcquireOutcomes(b) ==
  IF b = "playwright" THEN {"ok", "no_engine", "no_browser", "setup_fails"}
  ELSE {"ok", "no_browser", "setup_fails"}

Acquire ==
  /\ pc = "iter"
  /\ checks < MaxChecks
  /\ checks' = checks + 1
  /\ \E o \in AcquireOutcomes(backend) :
       /\ pw' = (backend = "playwright" /\ o # "no_engine")
       /\ IF o \in {"ok", "setup_fails"}
          THEN /\ nextId' = nextId + 1
               /\ driver' = nextId + 1
               /\ cur' = nextId + 1
               /\ live' = live \cup {nextId + 1}
          ELSE /\ cur' = 0
               /\ UNCHANGED <<nextId, driver, live>>
       /\ IF o = "ok"
          THEN pc' = "login" /\ ret' = "none"
          ELSE pc' = "cleanup" /\ ret' = "False"    \* except Exception
       /\ trace' = << <<"acquire", o>> >>
  /\ exc' = "none"
  /\ sleeps' = 0
  /\ loginIn' = NoLoginIn /\ navIn' = NoNavIn /\ probeIn' = NoProbeIn
  /\ loginRes' = NoLoginRes /\ navRes' = NoNavRes /\ probeRes' = NoProbeRes
  /\ UNCHANGED <<backend, entry, creds, releaseCalls, mails, interrupts,
                 exitStatus>>

\* variant of StepExit: check_appointments without its finally block, an
\* interrupt leaves the check at once
StepExit_NoFinally(r, next) ==
  /\ pc' = IF r = "True" THEN next ELSE IF r = "raise" THEN "exited" ELSE "cleanup"
  /\ ret' = IF r = "False" THEN "False" ELSE ret
  /\ exc' = IF r = "raise" THEN "KeyboardInterrupt" ELSE exc

\* variant of StepExit: `if not self.login(): return False` without the
\* return, a failed step is followed by the next one
StepExit_IgnoreFailure(r, next) ==
  /\ pc' = IF r = "raise" THEN "cleanup" ELSE next
  /\ ret' = ret
  /\ exc' = IF r = "raise" THEN "KeyboardInterrupt" ELSE exc

\* variant of StepExit: a step whose failing lookup waits without a timeout
\* never hands control back
StepExit_Stuck(r, next) ==
  /\ pc' = IF r = "True" THEN next ELSE IF r = "False" THEN "waiting" ELSE "cleanup"
  /\ ret' = ret
  /\ exc' = IF r = "raise" THEN "KeyboardInterrupt" ELSE exc

\* what check_appointments does with a step's result r; next is the
\* position after a True
StepExit(r, next) ==
  /\ pc' = IF r = "True" THEN next ELSE "cleanup"
  /\ ret' = IF r = "False" THEN "False" ELSE ret
  /\ exc' = IF r = "raise" THEN "KeyboardInterrupt" ELSE exc

Interrupted(in) ==
  /\ (in.intr # "none") => interrupts < MaxInterrupts
  /\ interrupts' = IF in.intr # "none" THEN interrupts + 1 ELSE interrupts

Login ==
  /\ pc = "login"
  /\ \E in \in LoginInputs :
       /\ Interrupted(in)
       /\ loginIn' = in
       /\ loginRes' = login(backend, in, creds)
       /\ trace' = Append(trace, <<"login", login(backend, in, creds).ret>>)
       /\ StepExit(login(backend, in, creds).ret, "navigate")
  /\ UNCHANGED <<backend, entry, creds, driver, pw, cur, nextId, live,
                 releaseCalls, checks, navIn, probeIn, navRes, probeRes,
                 mails, sleeps, exitStatus>>

Navigate ==
  /\ pc = "navigate"
  /\ \E in \in NavInputs :
       /\ Interrupted(in)
       /\ navIn' = in
       /\ navRes' = navigate_to_reschedule(backend, in)
       /\ trace' = Append(trace, <<"navigate", navigate_to_reschedule(backend, in).ret>>)
       /\ StepExit(navigate_to_reschedule(backend, in).ret, "probe")
  /\ UNCHANGED <<backend, entry, creds, driver, pw, cur, nextId, live,
                 releaseCalls, checks, loginIn, probeIn, loginRes, probeRes,
                 mails, sleeps, exitStatus>>

\* is_available = self.check_reschedule_availability() and the if/else
\* after it, send_notification included
Probe ==
  /\ pc = "probe"
  /\ \E in \in ProbeInputs, relayOk \in BOOLEAN :
       LET r == check_reschedule_availability(backend, in) IN
       /\ Interrupted(in)
       /\ probeIn' = in
       /\ probeRes' = r
       /\ trace' = Append(trace, <<"check_reschedule_availability", r.ret>>)
       /\ pc' = "cleanup"
       /\ IF r.ret = "raise"
          THEN exc' = "KeyboardInterrupt" /\ UNCHANGED <<ret, mails>>
          ELSE /\ exc' = exc
               /\ IF ShouldNotify(r.ret)
                  THEN /\ mails' = send_notification(AvailableSubject,
                                                     AvailableBody, relayOk)
                       \* an exception here would land in `except Exception`
                       /\ ret' = IF NotifyExc(relayOk) = "none"
                                 THEN "True" ELSE "False"
                  ELSE /\ relayOk
                       /\ ret' = "False"
                       /\ UNCHANGED mails
  /\ UNCHANGED <<backend, entry, creds, driver, pw, cur, nextId, live,
                 releaseCalls, checks, loginIn, navIn, loginRes, navRes,
                 sleeps, exitStatus>>

\* The finally block of check_appointments, then the caller's reaction.
\*   closeOut  outcome of self.driver.quit() / self.browser.close()
\*             ("na": the handle is None, the call is not made)
\*   survives  when the call raised: the browser process is still running
\*   stopOut   outcome of playwright.stop() ("na": not reached / not made)
CleanupInputs ==
  { i \in [closeOut : {"ok", "raises", "na"},
           survives : BOOLEAN,
           stopOut : {"ok", "raises", "na"}] :
      /\ (i.closeOut = "na") <=> (driver = 0)
      /\ i.survives => (i.closeOut = "raises")
      /\ (i.stopOut # "na") <=>
            (backend = "playwright" /\ pw /\ i.closeOut # "raises") }

\* the handle the finally block releases: self.driver / self.browser
ReleaseTarget == driver

Cleanup ==
  /\ UNCHANGED trace
  /\ pc = "cleanup"
  /\ \E i \in CleanupInputs :
       LET t == ReleaseTarget
           afterClose == IF i.closeOut = "na" \/ i.survives
                         THEN live ELSE live \ {t}
           e == IF i.closeOut = "raises" \/ i.stopOut = "raises"
                THEN "Exception" ELSE exc
           nxt == AfterCheck(e)
       IN
       /\ releaseCalls' = IF i.closeOut = "na" THEN releaseCalls
                          ELSE [releaseCalls EXCEPT ![t] = @ + 1]
       /\ live' = IF i.stopOut = "ok" THEN afterClose \ {cur} ELSE afterClose
       /\ exc' = e
       /\ ret' = IF e = "none" THEN ret ELSE "none"
       /\ pc' = nxt.pc
       /\ exitStatus' = nxt.status
  /\ UNCHANGED <<backend, entry, creds, driver, pw, cur, nextId, checks,
                 loginIn, navIn, probeIn, loginRes, navRes, probeRes, mails,
                 sleeps, interrupts>>

\* variant of Sleep: the loop goes back to the top of run_monitor, so the
\* 'started' notification is inside the loop
Sleep_Restart ==
  /\ UNCHANGED trace
  /\ pc = "sleep"
  /\ \E intr \in BOOLEAN :
       IF intr
       THEN /\ interrupts < MaxInterrupts
            /\ interrupts' = interrupts + 1
            /\ pc' = "exited" /\ exitStatus' = 0
            /\ UNCHANGED sleeps
       ELSE /\ sleeps' = sleeps + 1
            /\ pc' = "run_monitor"
            /\ UNCHANGED <<interrupts, exitStatus>>
  /\ UNCHANGED <<backend, entry, creds, driver, pw, cur, nextId, live,
                 releaseCalls, checks, loginIn, navIn, probeIn, loginRes,
                 navRes, probeRes, mails, exc, ret>>

\* run_monitor line 258 / 269: time.sleep(check_interval) inside the try;
\* a KeyboardInterrupt there is caught and breaks the loop
Sleep ==
  /\ UNCHANGED trace
  /\ pc = "sleep"
  /\ \E intr \in BOOLEAN :
       IF intr
       THEN /\ interrupts < MaxInterrupts
            /\ interrupts' = interrupts + 1
            /\ pc' = "exited" /\ exitStatus' = 0
            /\ UNCHANGED sleeps
       ELSE /\ sleeps' = sleeps + 1
            /\ pc' = "iter"
            /\ UNCHANGED <<interrupts, exitStatus>>
  /\ UNCHANGED <<backend, entry, creds, driver, pw, cur, nextId, live,
                 releaseCalls, checks, loginIn, navIn, probeIn, loginRes,
                 navRes, probeRes, mails, exc, ret>>

\* the sleeps the `except Exception` handler of run_monitor makes
HandlerSleeps == 1

\* run_monitor line 262-264 / 273-275: log, time.sleep(check_interval);
\* a KeyboardInterrupt inside the handler is not caught by anything
HandleError ==
  /\ UNCHANGED trace
  /\ pc = "handler_sleep"
  /\ \E intr \in BOOLEAN :
       IF intr
       THEN /\ interrupts < MaxInterrupts
            /\ interrupts' = interrupts + 1
            /\ pc' = "exited" /\ exitStatus' = 130
            /\ UNCHANGED sleeps
       ELSE /\ sleeps' = sleeps + HandlerSleeps
            /\ pc' = "iter"
            /\ UNCHANGED <<interrupts, exitStatus>>
  /\ UNCHANGED <<backend, entry, creds, driver, pw, cur, nextId, live,
                 releaseCalls, checks, loginIn, navIn, probeIn, loginRes,
                 navRes, probeRes, mails, exc, ret>>

Next ==
  \/ Main
  \/ RunMonitorStart
  \/ Acquire
  \/ Login
  \/ Navigate
  \/ Probe
  \/ Cleanup
  \/ Sleep
  \/ HandleError

Spec == Init /\ [][Next]_vars

TypeOK ==
  /\ <<backend, entry>> \in Configs
  /\ creds \in [CredNames -> BOOLEAN]
  /\ pc \in {"main", "run_monitor", "iter", "login", "navigate", "probe",
             "cleanup", "sleep", "handler_sleep", "exited"}
  /\ driver \in 0..MaxChecks /\ cur \in 0..MaxChecks /\ nextId \in 0..MaxChecks
  /\ pw \in BOOLEAN
  /\ live \subseteq 1..MaxChecks
  /\ checks \in 0..MaxChecks
  /\ exc \in {"none", "Exception", "KeyboardInterrupt"}
  /\ ret \in {"none", "True", "False"}
  /\ exitStatus \in {-1, 0, 1, 130}

\* ============================================================ claims
InCheck == pc \in {"login", "navigate", "probe", "cleanup"}

\* send_notification calls made by check k with the 'available' subject
AvailableMails(k) ==
  { i \in DOMAIN mails : mails[i].check = k /\ mails[i].subject = AvailableSubject }

\* C1: the 'appointment available' e-mail is sent by a check if and only if
\* its probe's verdict is Available; never for Unavailable or Indeterminate.
C1_NotifyIffAvailable ==
  checks > 0 =>
     ((AvailableMails(checks) # {}) <=> (probeRes.verdict = "Available"))

\* C2: every browser a check acquired is released exactly once: not yet
\* while that check is still before its cleanup, once from then on, never
\* twice.
C2_ReleasedExactlyOnce ==
  \A b \in 1..nextId :
     IF b = cur /\ InCheck THEN releaseCalls[b] = 0 ELSE releaseCalls[b] = 1

\* C3: login succeeded, navigation succeeded, no busy message and an enabled
\* submit control: the check sends exactly one e-mail, its subject contains
\* "Available" and its body the login URL.
C3_EndToEndOneMail ==
  ( /\ \A n \in CredNames : creds[n]
    /\ loginRes.ret = "True" /\ loginIn.url = GroupsURL
    /\ navRes.ret = "True"
    /\ probeIn.busy \in {"absent", "hidden"} /\ probeIn.submitCtl = "noattr"
    /\ probeIn.intr = "none" )
  => /\ Cardinality({ i \in DOMAIN mails : mails[i].check = checks }) = 1
     /\ \A i \in DOMAIN mails :
          mails[i].check = checks =>
             /\ Contains(mails[i].subject, "Available")
             /\ mails[i].body.link = LoginURL

\* C4: on either backend login returns True when the location after the
\* submit is no longer the sign-in URL and False when it still is.
C4_LoginFollowsUrl ==
  (loginIn.url # <<>> /\ loginRes.ret # "none")
  => ((loginRes.ret = "True") <=> (loginIn.url # LoginURL))

\* C5: a 'System is busy' node that the probe finds present and visible
\* makes the verdict Unavailable whatever the submit control's disabled
\* attribute is; the submit control is not read in that case.
C5_BusyIsUnavailable ==
  (probeIn.busy = "visible" /\ probeIn.intr = "none")
  => /\ probeRes.verdict = "Unavailable"
     /\ probeRes.ret = "False"
     /\ ~probeRes.readSubmit

C5_Witness ==
  /\ probeIn.busy = "visible" /\ probeIn.intr = "none"
  /\ probeIn.submitCtl = "noattr"
  /\ probeRes.verdict = "Unavailable"
  /\ pc = "cleanup"

\* C6: with no visible busy message, the verdict is Unavailable when the
\* submit control carries a disabled attribute and Available when it does
\* not.
C6_SubmitDecides ==
  ( /\ probeIn.busy \in {"absent", "hidden"}
    /\ probeIn.intr = "none"
    /\ probeIn.submitCtl \in {"noattr", "empty", "disabled"} )
  => probeRes.verdict =
        IF probeIn.submitCtl = "noattr" THEN "Available" ELSE "Unavailable"

\* C7: with any of the five required values missing, no browser session is
\* ever created.
C7_FailFastOnMissingCredential ==
  (\E n \in CredNames : ~creds[n]) => nextId = 0

\* C8: after a check left run_monitor's try with an Exception, the loop
\* sleeps exactly once and is then at the top of the loop again; it has not
\* terminated (only an interrupt during that sleep ends the process).
C8_AfterError ==
  (entry = "monitor" /\ exc = "Exception")
  => \/ pc = "handler_sleep" /\ sleeps = 0 /\ exitStatus = -1
     \/ pc = "iter" /\ sleeps = 1 /\ exitStatus = -1
     \/ pc = "exited" /\ interrupts > 0 /\ sleeps = 0

C8_Witness ==
  /\ entry = "monitor" /\ exc = "Exception"
  /\ pc = "iter" /\ sleeps = 1 /\ checks = 1 /\ interrupts = 0

\* C9: the single-shot entry point ends with exit status 0 whatever the
\* check did (no interrupt involved).
C9_OnceExitsZero ==
  (entry = "once" /\ pc = "exited" /\ interrupts = 0) => exitStatus = 0

\* C10: at no time is more than one browser live.
C10_AtMostOneLive ==
  Cardinality(live) <= 1

\* the running (or last) check got no browser: sync_playwright().start(),
\* chromium.launch or webdriver.Chrome raised
ConstructionFailed == checks > 0 /\ cur = 0

\* C11: a browser construction failure leaves the check as a fatal error for
\* its caller, and after it the monitor makes no further construction
\* attempt.
C11_ConstructionFailureFatal ==
  /\ [](  (ConstructionFailed /\ ~InCheck) => exc = "Exception" )
  /\ [][ ConstructionFailed => checks' = checks ]_vars

\* send_notification calls made by check k (0: before the first check)
MailsOf(k) == { i \in DOMAIN mails : mails[i].check = k }

\* C12: a failed delivery stays inside send_notification: the check goes on
\* as after a successful send (it returns True), no second send is made for
\* the same check, and run_monitor keeps looping (it ends only on an
\* interrupt).
C12_DeliveryFailureContained ==
  /\ \A i, j \in DOMAIN mails : (mails[i].check = mails[j].check) => i = j
  /\ \A i \in DOMAIN mails :
       ~mails[i].delivered =>
          /\ (mails[i].check = checks /\ checks > 0 /\ pc = "cleanup")
                => (ret = "True" /\ exc = "none")
          /\ (entry = "monitor" /\ pc = "exited") => interrupts > 0

C12_Witness ==
  /\ \A n \in CredNames : creds[n]
  /\ entry = "monitor" /\ checks = 1 /\ pc = "sleep"
  /\ \E i \in MailsOf(1) : ~mails[i].delivered
  /\ \E i \in MailsOf(0) : ~mails[i].delivered

\* C13 as claimed: an interrupt never cuts a check short: no step is left by
\* the interrupt, and the process stops only with the check's browser
\* released.
C13_InterruptOnlyBetweenChecks ==
  /\ loginRes.ret # "raise" /\ navRes.ret # "raise" /\ probeRes.ret # "raise"
  /\ (pc = "exited" /\ cur # 0) => releaseCalls[cur] = 1

\* C13 (amended): an interrupt that leaves login, navigation or the probe
\* abandons the rest of that check -- later steps do not run, nothing is
\* sent, nothing is returned -- and the check still goes through its finally
\* block: close()/quit() is called exactly once on that check's own browser
\* before the process stops.
C13_InterruptedCheckStillReleases ==
  (exc = "KeyboardInterrupt") =>
     /\ cur # 0 /\ driver = cur
     /\ \/ pc = "cleanup" /\ releaseCalls[cur] = 0 /\ exitStatus = -1
        \/ pc = "exited" /\ releaseCalls[cur] = 1 /\ cur \notin live
     /\ (loginRes.ret = "raise") => (navRes.ret = "none" /\ probeRes.ret = "none")
     /\ (navRes.ret = "raise") => (probeRes.ret = "none")
     /\ MailsOf(checks) = {}
     /\ ret = "none"

C13_Witness ==
  /\ exc = "KeyboardInterrupt" /\ pc = "exited" /\ entry = "monitor"
  /\ navRes.ret = "raise" /\ releaseCalls[cur] = 1 /\ exitStatus = 0

\* C14: after login returned False neither navigation nor the probe runs and
\* nothing is sent; after navigation returned False the probe does not run
\* and nothing is sent; either way the check goes straight to its cleanup
\* and then returns False without raising.
C14_FailureShortCircuits ==
  (loginRes.ret = "False" \/ navRes.ret = "False") =>
     /\ (loginRes.ret = "False") => navRes.ret = "none"
     /\ probeRes.ret = "none"
     /\ MailsOf(checks) = {}
     /\ InCheck => pc = "cleanup"
     /\ exc = "none"
     /\ ret = "False"

\* the order in which check_appointments calls its steps
StepOrder == <<"acquire", "login", "navigate", "check_reschedule_availability">>

\* C15: within one check the steps are invoked in the order acquire, login,
\* navigate_to_reschedule, check_reschedule_availability, each at most once,
\* and each only after the one before it succeeded.
C15_StepsInOrderOnce ==
  /\ Len(trace) <= Len(StepOrder)
  /\ \A i \in 1..Len(trace) :
       /\ trace[i][1] = StepOrder[i]
       /\ (i > 1) => trace[i - 1][2] \in {"ok", "True"}

C15_Witness ==
  /\ Len(trace) = 4 /\ pc = "cleanup"
  /\ trace[4][2] = "False"

\* C16: an error raised inside a step (lookup timeout, stale element, click
\* failure) never leaves the step: the step returns False.  The optional
\* policy checkbox and a reschedule click rescued by the script click are
\* set aside here: the design tolerates those.
C16_StepErrorsBecomeFalse ==
  /\ (loginIn.pre = "fail" \/ loginIn.submit = "fail")
        => loginRes.ret = "False"
  /\ (navIn.pre = "fail" \/ (navIn.click = "fail" /\ navIn.domClick = "fail"))
        => navRes.ret = "False"
  /\ ( /\ probeIn.intr = "none"
       /\ \/ probeIn.dropdown = "fail"
          \/ probeIn.busy = "error"
          \/ (probeIn.submitCtl = "missing" /\ probeIn.busy # "visible") )
        => probeRes.ret = "False"

\* C17: whatever a check operates on or releases is the browser that same
\* check acquired; a check that acquired none holds no handle at all.
C17_OwnBrowserOnly ==
  InCheck => (driver = cur /\ ReleaseTarget = cur)

\* ------------------------------------------------------- progress
\* Credential sets used for the progress check: all present, all missing.
LiveCreds ==
  { c \in [CredNames -> BOOLEAN] : \A m, n \in CredNames : c[m] = c[n] }

LiveInit == Init /\ creds \in LiveCreds

\* One thread runs the check: a step that is entered is carried out.  Every
\* wait inside a step carries a timeout (wait_for_selector(timeout=20000) and
\* 5000, Playwright's default action timeout, WebDriverWait(driver, 20),
\* implicitly_wait(10)) or is a fixed sleep, so each step is one action that
\* ends with a result.
\* the same program making at most MaxLiveChecks checks
LiveAcquire == Acquire /\ checks < MaxLiveChecks

LiveNext ==
  \/ Main
  \/ RunMonitorStart
  \/ LiveAcquire
  \/ Login
  \/ Navigate
  \/ Probe
  \/ Cleanup
  \/ Sleep
  \/ HandleError

LiveSpec ==
  /\ LiveInit /\ [][LiveNext]_vars
  /\ WF_vars(Login) /\ WF_vars(Navigate) /\ WF_vars(Probe) /\ WF_vars(Cleanup)

CheckOver == pc \in {"sleep", "handler_sleep", "iter", "exited"}

ReachedCheckbox ==
  loginIn.pre = "ok" /\ creds["VISA_EMAIL"] /\ creds["VISA_PASSWORD"]

\* C19: login ticks the policy checkbox exactly when it finds it present and
\* unchecked (and the click goes through); an absent or already checked box
\* is not clicked, and an absent box is never the reason login returns
\* False.
C19_CheckboxOnlyWhenUnchecked ==
  /\ loginRes.ticked => (loginIn.checkbox = "unchecked" /\ loginIn.tick = "ok")
  /\ (ReachedCheckbox /\ loginIn.checkbox = "unchecked" /\ loginIn.tick = "ok")
        => loginRes.ticked
  /\ (loginIn.checkbox = "absent" /\ loginRes.ret = "False")
        => \/ loginIn.submit = "fail"
           \/ ~ReachedCheckbox
           \/ (backend = "playwright" /\ Contains(loginIn.url, "sign_in"))

C19_Witness ==
  /\ loginIn.checkbox = "unchecked" /\ loginRes.ticked /\ loginRes.ret = "True"
  /\ pc = "navigate"

\* C20: on either backend, when the ordinary click on the reschedule button
\* fails, the script click is tried, and navigation succeeds if that one
\* succeeds.
C20_ClickFallback ==
  (navIn.click = "fail") =>
     /\ navRes.fallback
     /\ (navIn.domClick = "ok") => navRes.ret = "True"

\* send_notification calls made with the 'started' subject
StartedMails == { i \in DOMAIN mails : mails[i].subject = StartedSubject }

\* C21: run_monitor makes the 'Visa Monitor Started' send exactly once, as
\* the first send of the run and before any check is invoked, and never
\* again on later iterations; whether or not it was delivered, the loop is
\* then at its first check.  check_once never makes that send.
C21_StartedOnceBeforeLoop ==
  /\ (entry = "monitor" /\ pc \notin {"main", "run_monitor"})
        => (Len(mails) >= 1 /\ mails[1].subject = StartedSubject
                            /\ mails[1].check = 0)
  /\ \A i \in DOMAIN mails :
        (mails[i].subject = StartedSubject) =>
           /\ i = 1
           /\ entry = "monitor" /\ pc \notin {"main", "run_monitor"}
           /\ (checks = 0) => (pc = "iter" /\ exitStatus = -1)

C21_Witness ==
  /\ entry = "monitor" /\ checks = 2 /\ InCheck
  /\ StartedMails = {1} /\ ~mails[1].delivered

\* the pipeline that is not running: snoop_bot.py for visa_monitor.py and
\* the other way round
OtherBackend(b) == IF b = "playwright" THEN "selenium" ELSE "playwright"

\* C22: the backends are interchangeable: on the page behaviour a step of
\* the running check met (no interrupt involved), the same step of the other
\* backend gives the same result; the probe then gives the same verdict,
\* hence the same notification decision and the same return value of
\* check_appointments.
C22_BackendsInterchangeable ==
  /\ (loginRes.ret # "none" /\ loginIn.intr = "none")
        => loginRes.ret = login(OtherBackend(backend), loginIn, creds).ret
  /\ (navRes.ret # "none" /\ navIn.intr = "none")
        => navRes.ret = navigate_to_reschedule(OtherBackend(backend), navIn).ret
  /\ (probeRes.ret # "none" /\ probeIn.intr = "none")
        => LET o == check_reschedule_availability(OtherBackend(backend), probeIn)
           IN /\ probeRes.ret = o.ret
              /\ probeRes.verdict = o.verdict
              /\ ShouldNotify(probeRes.ret) = ShouldNotify(o.ret)

====
